---- MODULE Spec2Model ----
(***************************************************************************)
(* Model of the log viewer: the main process keeps one HTTP listener per   *)
(* port (src/main/main.ts) and forwards every POST it receives to the      *)
(* renderer, whose LogViewer component (src/renderer/components/           *)
(* LogViewer.tsx) merges request and response events into per-port entry   *)
(* lists.                                                                  *)
(***************************************************************************)
EXTENDS Integers, Sequences, FiniteSets, TLC

(* ---------------- bounds of the model ---------------- *)
MaxPosts == 2
MaxInFlight == 1
MaxCalls == 2
MaxTabs == 2
MaxQueryPosts == 4

Ports == {4000, 5000}

(* ---------------- JavaScript values ---------------- *)
\* A JavaScript value: its typeof-like tag, its number, its characters.
Undefined == [type |-> "undefined", n |-> 0, s |-> <<>>]
Null == [type |-> "null", n |-> 0, s |-> <<>>]
Num(k) == [type |-> "number", n |-> k, s |-> <<>>]
Str(cs) == [type |-> "string", n |-> 0, s |-> cs]
Obj(k) == [type |-> "object", n |-> k, s |-> <<>>]

\* Mutant of Truthy: `requestId === undefined` in place of `!requestId`.
TruthyDefined(v) == v.type # "undefined"

\* JavaScript truthiness: undefined, null, 0 and "" are falsy.
Truthy(v) ==
  CASE v.type = "undefined" -> FALSE
    [] v.type = "null" -> FALSE
    [] v.type = "number" -> v.n # 0
    [] v.type = "string" -> v.s # <<>>
    [] OTHER -> TRUE

(* ---------------- timestamps ---------------- *)
Digit(d) ==
  CASE d = 0 -> "0" [] d = 1 -> "1" [] d = 2 -> "2" [] d = 3 -> "3"
    [] d = 4 -> "4" [] d = 5 -> "5" [] d = 6 -> "6" [] d = 7 -> "7"
    [] d = 8 -> "8" [] OTHER -> "9"

DigitVal(c) ==
  CASE c = "0" -> 0 [] c = "1" -> 1 [] c = "2" -> 2 [] c = "3" -> 3
    [] c = "4" -> 4 [] c = "5" -> 5 [] c = "6" -> 6 [] c = "7" -> 7
    [] c = "8" -> 8 [] OTHER -> 9

\* Date.prototype.toISOString of the instant t (milliseconds): the text
\* "ss.mmmZ" (the date, hour and minute, equal for all instants of the model,
\* are left out).
ToISOString(t) ==
  Str(<< Digit((t \div 10000) % 10), Digit((t \div 1000) % 10), ".",
         Digit((t \div 100) % 10), Digit((t \div 10) % 10), Digit(t % 10),
         "Z" >>)

\* new Date(text).getTime(): the milliseconds the text denotes.
GetTime(v) ==
  (DigitVal(v.s[1]) * 10 + DigitVal(v.s[2])) * 1000
    + DigitVal(v.s[4]) * 100 + DigitVal(v.s[5]) * 10 + DigitVal(v.s[6])

\* The instants at which the wall clock is read.
Times == {0, 550}

(* ---------------- payloads ---------------- *)
\* parsedData.request: undefined, null, or an object with the fields of
\* LogRequest that the handler reads (and the id the interface declares).
NoRequest ==
  [type |-> "undefined", id |-> Undefined, method |-> Undefined,
   uri |-> Undefined, headers |-> Undefined, data |-> Undefined,
   queryParameters |-> Undefined]

NullRequest == [NoRequest EXCEPT !.type = "null"]

RequestObj(id, method, uri, headers, data, qp) ==
  [type |-> "object", id |-> id, method |-> method, uri |-> uri,
   headers |-> headers, data |-> data, queryParameters |-> qp]

NoResponse ==
  [type |-> "undefined", id |-> Undefined, status |-> Undefined,
   message |-> Undefined, uri |-> Undefined, data |-> Undefined]

ResponseObj(id, status, message, uri, data) ==
  [type |-> "object", id |-> id, status |-> status, message |-> message,
   uri |-> uri, data |-> data]

\* logData.data: absent, raw text (JSON.parse failed), or a parsed object.
NoData ==
  [type |-> "undefined", id |-> Undefined, request |-> NoRequest,
   response |-> NoResponse]

RawText == [NoData EXCEPT !.type = "string"]

DataObj(id, request, response) ==
  [type |-> "object", id |-> id, request |-> request, response |-> response]

\* A field of an object is usable when it is truthy: an object is, undefined
\* and null are not.
TruthyField(f) == f.type = "object"

GET == Str(<<"G", "E", "T">>)
POST == Str(<<"P", "O", "S", "T">>)
UriA == Str(<<"/", "a">>)
UriB == Str(<<"/", "b">>)
UNKNOWN == Str(<<"U", "N", "K", "N", "O", "W", "N">>)

\* Sample request and response sub-objects: a full one, and one without the
\* optional fields.
ReqA(id) == RequestObj(id, GET, UriA, Obj(1), Obj(2), Obj(3))
ReqB(id) == RequestObj(id, POST, UriB, Obj(4), Undefined, Undefined)
RespA(id) == ResponseObj(id, Num(200), Str(<<"O", "K">>), UriA, Obj(5))
RespB(id) == ResponseObj(id, Num(404), Undefined, UriB, Undefined)

\* The payloads that change a session: a truthy id at the top level and a
\* usable request or response.
ActionablePayloads ==
  {DataObj(Num(1), ReqA(Num(1)), NoResponse),
   DataObj(Num(1), ReqB(Num(1)), NoResponse),
   DataObj(Num(1), NoRequest, RespA(Num(1))),
   DataObj(Num(1), NoRequest, RespB(Num(1))),
   DataObj(Num(1), ReqA(Num(1)), RespB(Num(1))),
   DataObj(Str(<<"1">>), ReqA(Str(<<"1">>)), NoResponse)}

\* The payloads the handler is to discard: no data, raw text, a falsy or
\* absent id at the top level, neither a usable request nor a usable response.
InertPayloads ==
  {NoData, RawText,
   DataObj(Num(0), ReqA(Num(0)), NoResponse),
   DataObj(Str(<<>>), ReqA(Str(<<>>)), NoResponse),
   DataObj(Undefined, ReqA(Num(1)), NoResponse),
   DataObj(Num(1), NoRequest, NoResponse),
   DataObj(Num(1), NullRequest, NoResponse)}

Payloads == ActionablePayloads \cup InertPayloads

\* The normalized event of a POST: the path and the headers of the call are
\* forwarded and never read by the renderer.
LogData(port, t, data) ==
  [port |-> port, timestamp |-> ToISOString(t), method |-> POST,
   path |-> Str(<<"/">>), headers |-> Obj(9), data |-> data]

\* The events the listeners receive. For the first port: each kind of
\* payload, the full request and the full response at both instants. For the
\* second port: a request, a response and an empty body.
Events ==
  {LogData(4000, t, DataObj(Num(1), ReqA(Num(1)), NoResponse)) : t \in Times}
    \cup {LogData(4000, t, DataObj(Num(1), NoRequest, RespA(Num(1)))) :
            t \in Times}
    \cup {LogData(4000, 0, DataObj(Num(1), ReqB(Num(1)), NoResponse)),
          LogData(4000, 550, DataObj(Num(1), NoRequest, RespB(Num(1)))),
          LogData(4000, 550, DataObj(Num(1), ReqA(Num(1)), RespB(Num(1)))),
          LogData(4000, 0, DataObj(Str(<<"1">>), ReqA(Str(<<"1">>)),
                                   NoResponse))}
    \cup {LogData(4000, 0, d) : d \in InertPayloads}
    \cup {LogData(5000, 0, DataObj(Num(1), ReqA(Num(1)), NoResponse)),
          LogData(5000, 550, DataObj(Num(1), NoRequest, RespA(Num(1)))),
          LogData(5000, 0, NoData)}

(* ---------------- merged entries ---------------- *)
\* Mutant of FindIndex: the entry's port is compared in place of its id.
FindIndexByPort(entries, requestId) ==
  IF \E i \in 1..Len(entries) : Num(entries[i].port) = requestId
    THEN CHOOSE i \in 1..Len(entries) :
           /\ Num(entries[i].port) = requestId
           /\ \A j \in 1..(i - 1) : Num(entries[j].port) # requestId
    ELSE 0

\* findIndex((e) => e.id === requestId): the first position, 0 for -1.
FindIndex(entries, requestId) ==
  IF \E i \in 1..Len(entries) : entries[i].id = requestId
    THEN CHOOSE i \in 1..Len(entries) :
           /\ entries[i].id = requestId
           /\ \A j \in 1..(i - 1) : entries[j].id # requestId
    ELSE 0

\* Mutant of NewRequestEntry: the entry does not take the port of the event.
NewRequestEntryPortless(requestId, logData, request) ==
  [id |-> requestId, port |-> 0,
   method |-> request.method, uri |-> request.uri,
   requestTimestamp |-> logData.timestamp,
   requestHeaders |-> request.headers,
   requestData |-> request.data,
   requestQueryParameters |-> request.queryParameters,
   responseTimestamp |-> Undefined, duration |-> Undefined,
   statusCode |-> Undefined, responseData |-> Undefined,
   responseMessage |-> Undefined]

\* The new entry of a request with an unseen id.
NewRequestEntry(requestId, logData, request) ==
  [id |-> requestId, port |-> logData.port,
   method |-> request.method, uri |-> request.uri,
   requestTimestamp |-> logData.timestamp,
   requestHeaders |-> request.headers,
   requestData |-> request.data,
   requestQueryParameters |-> request.queryParameters,
   responseTimestamp |-> Undefined, duration |-> Undefined,
   statusCode |-> Undefined, responseData |-> Undefined,
   responseMessage |-> Undefined]

\* Mutant of UpdateWithRequest: the entry is built anew, without the spread of
\* the existing one.
UpdateWithRequestAnew(existingEntry, logData, request) ==
  NewRequestEntry(existingEntry.id, logData, request)

\* An existing entry updated with a request.
UpdateWithRequest(existingEntry, logData, request) ==
  [existingEntry EXCEPT
     !.method = request.method,
     !.uri = request.uri,
     !.requestTimestamp = logData.timestamp,
     !.requestHeaders = request.headers,
     !.requestData = request.data,
     !.requestQueryParameters = request.queryParameters]

\* Mutant of Duration: requestTime - responseTime.
DurationReversed(existingEntry, logData) ==
  GetTime(existingEntry.requestTimestamp) - GetTime(logData.timestamp)

\* Mutant of Duration: a negative difference is stored as 0.
DurationClamped(existingEntry, logData) ==
  LET d == GetTime(logData.timestamp) - GetTime(existingEntry.requestTimestamp)
  IN IF d < 0 THEN 0 ELSE d

\* responseTime - requestTime.
Duration(existingEntry, logData) ==
  GetTime(logData.timestamp) - GetTime(existingEntry.requestTimestamp)

\* An existing entry updated with a response.
UpdateWithResponse(existingEntry, logData, response) ==
  [existingEntry EXCEPT
     !.responseTimestamp = logData.timestamp,
     !.statusCode = response.status,
     !.responseMessage = response.message,
     !.responseData = response.data,
     !.duration = Num(Duration(existingEntry, logData))]

\* Mutant of NewResponseEntry: no duration is set.
NewResponseEntryNoDuration(requestId, logData, response) ==
  [id |-> requestId, port |-> logData.port,
   method |-> UNKNOWN, uri |-> response.uri,
   requestTimestamp |-> logData.timestamp,
   responseTimestamp |-> logData.timestamp,
   statusCode |-> response.status,
   responseMessage |-> response.message,
   responseData |-> response.data,
   duration |-> Undefined,
   requestHeaders |-> Undefined, requestData |-> Undefined,
   requestQueryParameters |-> Undefined]

\* The new entry of a response with an unseen id.
NewResponseEntry(requestId, logData, response) ==
  [id |-> requestId, port |-> logData.port,
   method |-> UNKNOWN, uri |-> response.uri,
   requestTimestamp |-> logData.timestamp,
   responseTimestamp |-> logData.timestamp,
   statusCode |-> response.status,
   responseMessage |-> response.message,
   responseData |-> response.data,
   duration |-> Num(0),
   requestHeaders |-> Undefined, requestData |-> Undefined,
   requestQueryParameters |-> Undefined]

\* The correlation key of an event.
RequestId(parsedData) == parsedData.id

\* Mutant of MergeIntoTab: a new entry is put at the end of the list.
MergeIntoTabAppend(t, logData) ==
  LET parsedData == logData.data
      requestId == RequestId(parsedData)
      isRequest == parsedData.request.type # "undefined"
      isResponse == parsedData.response.type # "undefined"
      existingEntryIndex == FindIndex(t.entries, requestId)
  IN IF isRequest /\ TruthyField(parsedData.request)
       THEN IF existingEntryIndex >= 1
              THEN [t EXCEPT !.entries[existingEntryIndex] =
                      UpdateWithRequest(@, logData, parsedData.request)]
              ELSE [t EXCEPT !.entries =
                      Append(@, NewRequestEntry(requestId, logData,
                                                parsedData.request))]
       ELSE IF isResponse /\ TruthyField(parsedData.response)
         THEN IF existingEntryIndex >= 1
                THEN [t EXCEPT !.entries[existingEntryIndex] =
                        UpdateWithResponse(@, logData, parsedData.response)]
                ELSE [t EXCEPT !.entries =
                        Append(@, NewResponseEntry(requestId, logData,
                                                   parsedData.response))]
         ELSE t

\* Mutant of MergeIntoTab: the entry of a response that matches no entry is
\* put at the end of the list.
MergeIntoTabResponseLast(t, logData) ==
  LET parsedData == logData.data
      requestId == RequestId(parsedData)
      isRequest == parsedData.request.type # "undefined"
      isResponse == parsedData.response.type # "undefined"
      existingEntryIndex == FindIndex(t.entries, requestId)
  IN IF isRequest /\ TruthyField(parsedData.request)
       THEN IF existingEntryIndex >= 1
              THEN [t EXCEPT !.entries[existingEntryIndex] =
                      UpdateWithRequest(@, logData, parsedData.request)]
              ELSE [t EXCEPT !.entries =
                      <<NewRequestEntry(requestId, logData,
                                        parsedData.request)>> \o @]
       ELSE IF isResponse /\ TruthyField(parsedData.response)
         THEN IF existingEntryIndex >= 1
                THEN [t EXCEPT !.entries[existingEntryIndex] =
                        UpdateWithResponse(@, logData, parsedData.response)]
                ELSE [t EXCEPT !.entries =
                        Append(@, NewResponseEntry(requestId, logData,
                                                   parsedData.response))]
         ELSE t

\* Mutant of MergeIntoTab: the response of the payload is looked at before
\* its request.
MergeIntoTabResponseFirst(t, logData) ==
  LET parsedData == logData.data
      requestId == RequestId(parsedData)
      isRequest == parsedData.request.type # "undefined"
      isResponse == parsedData.response.type # "undefined"
      existingEntryIndex == FindIndex(t.entries, requestId)
  IN IF isResponse /\ TruthyField(parsedData.response)
       THEN IF existingEntryIndex >= 1
              THEN [t EXCEPT !.entries[existingEntryIndex] =
                      UpdateWithResponse(@, logData, parsedData.response)]
              ELSE [t EXCEPT !.entries =
                      <<NewResponseEntry(requestId, logData,
                                         parsedData.response)>> \o @]
       ELSE IF isRequest /\ TruthyField(parsedData.request)
         THEN IF existingEntryIndex >= 1
                THEN [t EXCEPT !.entries[existingEntryIndex] =
                        UpdateWithRequest(@, logData, parsedData.request)]
                ELSE [t EXCEPT !.entries =
                        <<NewRequestEntry(requestId, logData,
                                          parsedData.request)>> \o @]
         ELSE t

\* The body of prevTabs.map for the tab of the event.
MergeIntoTab(t, logData) ==
  LET parsedData == logData.data
      requestId == RequestId(parsedData)
      isRequest == parsedData.request.type # "undefined"
      isResponse == parsedData.response.type # "undefined"
      existingEntryIndex == FindIndex(t.entries, requestId)
  IN IF isRequest /\ TruthyField(parsedData.request)
       THEN IF existingEntryIndex >= 1
              THEN [t EXCEPT !.entries[existingEntryIndex] =
                      UpdateWithRequest(@, logData, parsedData.request)]
              ELSE [t EXCEPT !.entries =
                      <<NewRequestEntry(requestId, logData,
                                        parsedData.request)>> \o @]
       ELSE IF isResponse /\ TruthyField(parsedData.response)
         THEN IF existingEntryIndex >= 1
                THEN [t EXCEPT !.entries[existingEntryIndex] =
                        UpdateWithResponse(@, logData, parsedData.response)]
                ELSE [t EXCEPT !.entries =
                        <<NewResponseEntry(requestId, logData,
                                           parsedData.response)>> \o @]
         ELSE t

\* prevTabs.find((t) => t.port === port): the first position, 0 for none.
FindTab(prevTabs, port) ==
  IF \E i \in 1..Len(prevTabs) : prevTabs[i].port = port
    THEN CHOOSE i \in 1..Len(prevTabs) :
           /\ prevTabs[i].port = port
           /\ \A j \in 1..(i - 1) : prevTabs[j].port # port
    ELSE 0

\* Mutant of ProcessEvent: an event of a port without a tab goes to the first
\* tab.
ProcessEventFirstTab(prevTabs, logData) ==
  LET found == FindTab(prevTabs, logData.port)
      k == IF found = 0 /\ prevTabs # <<>> THEN 1 ELSE found
      parsedData == logData.data
  IN IF k = 0 THEN prevTabs
     ELSE IF parsedData.type # "object" THEN prevTabs
     ELSE IF ~Truthy(RequestId(parsedData)) THEN prevTabs
     ELSE [i \in 1..Len(prevTabs) |->
             IF prevTabs[i].id # prevTabs[k].id THEN prevTabs[i]
             ELSE MergeIntoTab(prevTabs[i], logData)]

\* Mutant of ProcessEvent: the map has no `t.id !== tab.id` test.
ProcessEventEveryTab(prevTabs, logData) ==
  LET k == FindTab(prevTabs, logData.port)
      parsedData == logData.data
  IN IF k = 0 THEN prevTabs
     ELSE IF parsedData.type # "object" THEN prevTabs
     ELSE IF ~Truthy(RequestId(parsedData)) THEN prevTabs
     ELSE [i \in 1..Len(prevTabs) |-> MergeIntoTab(prevTabs[i], logData)]

\* The updater the message handler passes to setTabs.
ProcessEvent(prevTabs, logData) ==
  LET k == FindTab(prevTabs, logData.port)
      parsedData == logData.data
  IN IF k = 0 THEN prevTabs
     ELSE IF parsedData.type # "object" THEN prevTabs
     ELSE IF ~Truthy(RequestId(parsedData)) THEN prevTabs
     ELSE [i \in 1..Len(prevTabs) |->
             IF prevTabs[i].id # prevTabs[k].id THEN prevTabs[i]
             ELSE MergeIntoTab(prevTabs[i], logData)]

(* ---------------- state ---------------- *)
VARIABLES
  servers,      \* main.ts `servers`: the ports that have a listener
  tabs,         \* LogViewer `tabs`: the sessions, in creation order
  activeTabId,  \* LogViewer `activeTabId`
  msgs,         \* 'log-server:message' events sent and not yet handled
  calls,        \* ipcRenderer.invoke calls that have not yet returned
  clock,        \* Date.now() of the renderer: one tick per tab created
  posted,       \* number of POSTs received so far
  refused,      \* number of calls answered 404 so far
  filter,       \* LogViewer `filter`
  stale,        \* history, kept by ReopenSpec only: for each event in
                \* flight, whether the listener that sent it has been closed
  selectedEntry \* LogViewer `selectedEntry`: <<>> for null, <<entry>>

vars ==
  <<servers, tabs, activeTabId, msgs, calls, clock, posted, refused, filter,
    stale, selectedEntry>>

\* What the lifecycle and the tab strip leave alone.
view == <<refused, filter>>

\* `tab-${port}-${Date.now()}`, `tab-${port}` and null.
TabId(port, now) == [port |-> port, at |-> now]
TabIdOfPort(port) == [port |-> port, at |-> -1]
NoTabId == [port |-> 0, at |-> -1]

\* `http://${ipAddress}:${port}`.
Endpoint(port) == [scheme |-> "http", port |-> port]

StartCall(port, first) ==
  [kind |-> "start", port |-> port, stage |-> "invoked", ok |-> FALSE,
   rank |-> 0,
   first |-> first, activeTabId |-> NoTabId]

StopCall(port, active) ==
  [kind |-> "stop", port |-> port, stage |-> "invoked", ok |-> FALSE,
   rank |-> 0,
   first |-> FALSE, activeTabId |-> active]

\* A sequence without its i-th element.
RemoveAt(seq, i) == SubSeq(seq, 1, i - 1) \o SubSeq(seq, i + 1, Len(seq))

\* The results of the calls reach the renderer in the order in which the main
\* process resolved them: `rank` is the place of a returned call in that
\* order, among the calls whose result the renderer has not received.
Resolved == Cardinality({j \in 1..Len(calls) : calls[j].stage = "returned"})

\* The stops of a port that await its close, up to the j-th call: the close
\* event runs their callbacks in the order of the close() calls.
ClosingUpTo(port, j) ==
  Cardinality({m \in 1..j : /\ calls[m].kind = "stop"
                            /\ calls[m].stage = "closing"
                            /\ calls[m].port = port})

\* The calls left when the renderer has received the first result.
Settled(left) ==
  [j \in 1..Len(left) |->
     IF left[j].stage = "returned" THEN [left[j] EXCEPT !.rank = @ - 1]
     ELSE left[j]]

PendingStarts ==
  Cardinality({i \in 1..Len(calls) : calls[i].kind = "start"})

Init ==
  /\ servers = {}
  /\ tabs = <<>>
  /\ activeTabId = NoTabId
  /\ msgs = <<>>
  /\ calls = <<>>
  /\ clock = 0
  /\ posted = 0
  /\ refused = 0
  /\ filter = <<>>
  /\ stale = <<>>
  /\ selectedEntry = <<>>

(* ---------------- main process ---------------- *)
\* ipcMain runs the handlers of the invoke calls in the order of the calls.
InArrivalOrder(i) == \A j \in 1..(i - 1) : calls[j].stage # "invoked"

\* Mutant of Post: the event of a POST is sent twice.
PostTwice(logData) ==
  /\ logData.port \in servers
  /\ posted + refused < MaxPosts
  /\ Len(msgs) < MaxInFlight
  /\ msgs' = Append(Append(msgs, logData), logData)
  /\ posted' = posted + 1
  /\ UNCHANGED <<servers, tabs, activeTabId, calls, clock, view, stale,
       selectedEntry>>

\* The Express middleware of a listener: a POST is forwarded to the renderer.
Post(logData) ==
  /\ logData.port \in servers
  /\ posted + refused < MaxPosts
  /\ Len(msgs) < MaxInFlight
  /\ msgs' = Append(msgs, logData)
  /\ posted' = posted + 1
  /\ UNCHANGED <<servers, tabs, activeTabId, calls, clock, view, stale,
       selectedEntry>>

\* Mutant of MainStart: a listen() on a port that another start is binding
\* does not report the port in use.
MainStartSharedBind(i, inUse) ==
  /\ calls[i].kind = "start" /\ calls[i].stage = "invoked"
  /\ InArrivalOrder(i)
  /\ LET port == calls[i].port
     IN IF port \in servers \/ inUse
          THEN calls' = [calls EXCEPT ![i].stage = "returned", ![i].ok = FALSE,
                                      ![i].rank = Resolved + 1]
          ELSE calls' = [calls EXCEPT ![i].stage = "binding"]
  /\ UNCHANGED <<servers, tabs, activeTabId, msgs, clock, posted, view, stale,
       selectedEntry>>

\* ipcMain.handle('log-server:start') up to the call of listen(): the port is
\* refused when it is registered, or when listen() reports it in use.
MainStart(i, inUse) ==
  /\ calls[i].kind = "start" /\ calls[i].stage = "invoked"
  /\ InArrivalOrder(i)
  /\ LET port == calls[i].port
         binding == \E j \in 1..Len(calls) :
                      /\ calls[j].kind = "start" /\ calls[j].port = port
                      /\ calls[j].stage = "binding"
     IN IF port \in servers \/ binding \/ inUse
          THEN calls' = [calls EXCEPT ![i].stage = "returned", ![i].ok = FALSE,
                                      ![i].rank = Resolved + 1]
          ELSE calls' = [calls EXCEPT ![i].stage = "binding"]
  /\ UNCHANGED <<servers, tabs, activeTabId, msgs, clock, posted, view, stale,
       selectedEntry>>

\* Mutant of MainListening: the start succeeds without servers.set().
MainListeningUnregistered(i) ==
  /\ calls[i].kind = "start" /\ calls[i].stage = "binding"
  /\ calls' = [calls EXCEPT ![i].stage = "returned", ![i].ok = TRUE,
                             ![i].rank = Resolved + 1]
  /\ UNCHANGED <<servers, tabs, activeTabId, msgs, clock, posted, view, stale,
       selectedEntry>>

\* The callback of listen(): the listener is registered.
MainListening(i) ==
  /\ calls[i].kind = "start" /\ calls[i].stage = "binding"
  /\ servers' = servers \cup {calls[i].port}
  /\ calls' = [calls EXCEPT ![i].stage = "returned", ![i].ok = TRUE,
                             ![i].rank = Resolved + 1]
  /\ UNCHANGED <<tabs, activeTabId, msgs, clock, posted, view, stale,
       selectedEntry>>

\* ipcMain.handle('log-server:stop') up to the call of server.close().
MainStop(i) ==
  /\ calls[i].kind = "stop" /\ calls[i].stage = "invoked"
  /\ InArrivalOrder(i)
  /\ IF calls[i].port \in servers
       THEN calls' = [calls EXCEPT ![i].stage = "closing"]
       ELSE calls' = [calls EXCEPT ![i].stage = "returned", ![i].ok = FALSE,
                                   ![i].rank = Resolved + 1]
  /\ UNCHANGED <<servers, tabs, activeTabId, msgs, clock, posted, view, stale,
       selectedEntry>>

\* The callback of server.close(): the listener is unregistered. The 'close'
\* event of the server runs the callback of every close() that awaits it.
MainClosed(i) ==
  /\ calls[i].kind = "stop" /\ calls[i].stage = "closing"
  /\ servers' = servers \ {calls[i].port}
  /\ calls' = [j \in 1..Len(calls) |->
                IF /\ calls[j].kind = "stop" /\ calls[j].stage = "closing"
                   /\ calls[j].port = calls[i].port
                  THEN [calls[j] EXCEPT
                          !.stage = "returned", !.ok = TRUE,
                          !.rank = Resolved + ClosingUpTo(calls[i].port, j)]
                  ELSE calls[j]]
  /\ UNCHANGED <<tabs, activeTabId, msgs, clock, posted, view, stale,
       selectedEntry>>

(* ---------------- renderer ---------------- *)
\* The 'log-server:message' handler.
Deliver ==
  /\ msgs # <<>>
  /\ tabs' = ProcessEvent(tabs, Head(msgs))
  /\ msgs' = Tail(msgs)
  /\ UNCHANGED <<servers, activeTabId, calls, clock, posted, view, stale,
       selectedEntry>>

\* handleStartServer up to the invoke.
StartClick(port) ==
  /\ Len(calls) < MaxCalls
  /\ clock + PendingStarts < MaxTabs
  /\ FindTab(tabs, port) = 0
  /\ calls' = Append(calls, StartCall(port, Len(tabs) = 0))
  /\ UNCHANGED <<servers, tabs, activeTabId, msgs, clock, posted, view, stale,
       selectedEntry>>

\* Mutant of StartReply: the tab is created whatever the result.
StartReplyAlways(i) ==
  /\ calls[i].kind = "start" /\ calls[i].stage = "returned"
  /\ calls[i].rank = 1
  /\ calls' = Settled(RemoveAt(calls, i))
  /\ LET newTab == [id |-> TabId(calls[i].port, clock),
                    port |-> calls[i].port,
                    active |-> calls[i].first,
                    entries |-> <<>>,
                    endpoint |-> Endpoint(calls[i].port)]
     IN /\ tabs' = Append([k \in 1..Len(tabs) |->
                             [tabs[k] EXCEPT !.active = FALSE]],
                          newTab)
        /\ activeTabId' = newTab.id
        /\ clock' = clock + 1
  /\ UNCHANGED <<servers, msgs, posted, view, stale,
       selectedEntry>>

\* handleStartServer after the invoke has returned.
StartReply(i) ==
  /\ calls[i].kind = "start" /\ calls[i].stage = "returned"
  /\ calls[i].rank = 1
  /\ calls' = Settled(RemoveAt(calls, i))
  /\ IF calls[i].ok
       THEN LET newTab == [id |-> TabId(calls[i].port, clock),
                           port |-> calls[i].port,
                           active |-> calls[i].first,
                           entries |-> <<>>,
                           endpoint |-> Endpoint(calls[i].port)]
            IN /\ tabs' = Append([k \in 1..Len(tabs) |->
                                    [tabs[k] EXCEPT !.active = FALSE]],
                                 newTab)
               /\ activeTabId' = newTab.id
               /\ clock' = clock + 1
       ELSE UNCHANGED <<tabs, activeTabId, clock>>
  /\ UNCHANGED <<servers, msgs, posted, view, stale,
       selectedEntry>>

\* prevTabs.filter((t) => t.port !== port).
RECURSIVE WithoutPort(_, _)
WithoutPort(prevTabs, port) ==
  IF prevTabs = <<>> THEN <<>>
  ELSE IF Head(prevTabs).port = port THEN WithoutPort(Tail(prevTabs), port)
  ELSE <<Head(prevTabs)>> \o WithoutPort(Tail(prevTabs), port)

\* handleStopServer up to the invoke (the close button of a tab).
StopClick(port) ==
  /\ Len(calls) < MaxCalls
  /\ FindTab(tabs, port) # 0
  /\ calls' = Append(calls, StopCall(port, activeTabId))
  /\ UNCHANGED <<servers, tabs, activeTabId, msgs, clock, posted, view, stale,
       selectedEntry>>

\* Mutant of StopReply: a successful stop removes every tab.
StopReplyAll(i) ==
  /\ calls[i].kind = "stop" /\ calls[i].stage = "returned"
  /\ calls[i].rank = 1
  /\ calls' = Settled(RemoveAt(calls, i))
  /\ IF calls[i].ok
       THEN /\ tabs' = <<>>
            /\ activeTabId' = NoTabId
            /\ selectedEntry' = <<>>
       ELSE UNCHANGED <<tabs, activeTabId, selectedEntry>>
  /\ UNCHANGED <<servers, msgs, clock, posted, view, stale>>

\* handleStopServer after the invoke has returned.
StopReply(i) ==
  /\ calls[i].kind = "stop" /\ calls[i].stage = "returned"
  /\ calls[i].rank = 1
  /\ calls' = Settled(RemoveAt(calls, i))
  /\ IF calls[i].ok
       THEN LET remaining == WithoutPort(tabs, calls[i].port)
            IN /\ tabs' = [k \in 1..Len(remaining) |->
                             [remaining[k] EXCEPT !.active = (k = 1)]]
               /\ activeTabId' =
                    IF Len(remaining) > 0
                         /\ calls[i].activeTabId = TabIdOfPort(calls[i].port)
                      THEN remaining[1].id
                    ELSE IF Len(remaining) = 0 THEN NoTabId
                    ELSE activeTabId
               /\ selectedEntry' = <<>>
       ELSE UNCHANGED <<tabs, activeTabId, selectedEntry>>
  /\ UNCHANGED <<servers, msgs, clock, posted, view, stale>>

\* handleTabClick.
TabClick(k) ==
  /\ k \in 1..Len(tabs)
  /\ tabs' = [j \in 1..Len(tabs) |->
                [tabs[j] EXCEPT !.active = (tabs[j].id = tabs[k].id)]]
  /\ activeTabId' = tabs[k].id
  /\ UNCHANGED <<servers, msgs, calls, clock, posted, view, stale>>
  /\ selectedEntry' = <<>>

\* Mutant of ClearEntries: the entries of every tab are cleared.
ClearEntriesAll ==
  /\ \E k \in 1..Len(tabs) : tabs[k].id = activeTabId
  /\ tabs' = [j \in 1..Len(tabs) |-> [tabs[j] EXCEPT !.entries = <<>>]]
  /\ UNCHANGED <<servers, activeTabId, msgs, calls, clock, posted, view, stale>>
  /\ selectedEntry' = <<>>

\* handleClearEntries.
ClearEntries ==
  /\ \E k \in 1..Len(tabs) : tabs[k].id = activeTabId
  /\ tabs' = [j \in 1..Len(tabs) |->
                IF tabs[j].id = activeTabId
                  THEN [tabs[j] EXCEPT !.entries = <<>>]
                  ELSE tabs[j]]
  /\ UNCHANGED <<servers, activeTabId, msgs, calls, clock, posted, view, stale>>
  /\ selectedEntry' = <<>>

\* No start or stop is awaiting its result.
Idle == calls = <<>>

\* The steps of the main process and of the renderer. The user waits for the
\* outcome of a start or a stop before starting or stopping again; events,
\* tab selection and clearing interleave freely with a pending call.
Next ==
  \/ \E logData \in Events : Post(logData)
  \/ \E i \in 1..Len(calls), inUse \in BOOLEAN : MainStart(i, inUse)
  \/ \E i \in 1..Len(calls) : MainListening(i)
  \/ \E i \in 1..Len(calls) : MainStop(i)
  \/ \E i \in 1..Len(calls) : MainClosed(i)
  \/ Deliver
  \/ \E port \in Ports : Idle /\ StartClick(port)
  \/ \E i \in 1..Len(calls) : StartReply(i)
  \/ \E port \in Ports : Idle /\ StopClick(port)
  \/ \E i \in 1..Len(calls) : StopReply(i)
  \/ \E k \in 1..Len(tabs) : TabClick(k)
  \/ ClearEntries

Spec == Init /\ [][Next]_vars

(* ---------------- events that outlive their listener ---------------- *)
\* The steps of Next that send, deliver and outdate events, with the history
\* of the events in flight: an event is fresh when it is sent, and the close
\* of a listener outdates the events of its port that are in flight.
PostRecorded(logData) ==
  /\ logData.port \in servers
  /\ posted + refused < MaxPosts
  /\ Len(msgs) < MaxInFlight
  /\ msgs' = Append(msgs, logData)
  /\ posted' = posted + 1
  /\ stale' = Append(stale, FALSE)
  /\ UNCHANGED <<servers, tabs, activeTabId, calls, clock, view,
       selectedEntry>>

DeliverRecorded ==
  /\ msgs # <<>>
  /\ tabs' = ProcessEvent(tabs, Head(msgs))
  /\ msgs' = Tail(msgs)
  /\ stale' = Tail(stale)
  /\ UNCHANGED <<servers, activeTabId, calls, clock, posted, view,
       selectedEntry>>

MainClosedRecorded(i) ==
  /\ calls[i].kind = "stop" /\ calls[i].stage = "closing"
  /\ servers' = servers \ {calls[i].port}
  /\ calls' = [j \in 1..Len(calls) |->
                IF /\ calls[j].kind = "stop" /\ calls[j].stage = "closing"
                   /\ calls[j].port = calls[i].port
                  THEN [calls[j] EXCEPT
                          !.stage = "returned", !.ok = TRUE,
                          !.rank = Resolved + ClosingUpTo(calls[i].port, j)]
                  ELSE calls[j]]
  /\ stale' = [j \in 1..Len(msgs) |->
                stale[j] \/ msgs[j].port = calls[i].port]
  /\ UNCHANGED <<tabs, activeTabId, msgs, clock, posted, view,
       selectedEntry>>

\* Sessions are opened, closed and opened again, one call at a time, while
\* events are in flight.
ReopenNext ==
  \/ \E logData \in Events : PostRecorded(logData)
  \/ \E i \in 1..Len(calls), inUse \in BOOLEAN : MainStart(i, inUse)
  \/ \E i \in 1..Len(calls) : MainListening(i)
  \/ \E i \in 1..Len(calls) : MainStop(i)
  \/ \E i \in 1..Len(calls) : MainClosedRecorded(i)
  \/ DeliverRecorded
  \/ \E port \in Ports : Idle /\ StartClick(port)
  \/ \E i \in 1..Len(calls) : StartReply(i)
  \/ \E port \in Ports : Idle /\ StopClick(port)
  \/ \E i \in 1..Len(calls) : StopReply(i)

ReopenSpec == Init /\ [][ReopenNext]_vars

(* ---------------- the filter of the entry list ---------------- *)
\* String.prototype.toLowerCase, on the letters of the model.
LowerCaseOf(c) ==
  CASE c = "A" -> "a" [] c = "B" -> "b" [] c = "E" -> "e" [] c = "G" -> "g"
    [] c = "K" -> "k" [] c = "N" -> "n" [] c = "O" -> "o" [] c = "P" -> "p"
    [] c = "S" -> "s" [] c = "T" -> "t" [] c = "U" -> "u" [] c = "W" -> "w"
    [] OTHER -> c

ToLowerCase(cs) == [i \in 1..Len(cs) |-> LowerCaseOf(cs[i])]

\* String.prototype.includes.
Includes(cs, part) ==
  \E i \in 0..(Len(cs) - Len(part)) : SubSeq(cs, i + 1, i + Len(part)) = part

\* Number.prototype.toString of a natural number.
RECURSIVE NumberToString(_)
NumberToString(k) ==
  IF k < 10 THEN <<Digit(k)>>
  ELSE NumberToString(k \div 10) \o <<Digit(k % 10)>>

\* JSON.stringify of an object: Obj(2) is {"K":1}, Obj(5) is {"ok":true},
\* Obj(0) is {} and any other Obj(k) is {"o":k}.
Stringify(v) ==
  CASE v.n = 0 -> <<"{", "}">>
    [] v.n = 2 -> <<"{", "\"", "K", "\"", ":", "1", "}">>
    [] v.n = 5 -> <<"{", "\"", "o", "k", "\"", ":", "t", "r", "u", "e", "}">>
    [] OTHER -> <<"{", "\"", "o", "\"", ":">> \o NumberToString(v.n)
                  \o <<"}">>

\* `value || {}`.
OrEmptyObject(v) == IF Truthy(v) THEN v ELSE Obj(0)

\* Whether the callback of entries.filter throws for an entry: toLowerCase
\* is called on entry.method, and on entry.uri when the method does not
\* match, whatever they are.
Throws(entry, lowerFilter) ==
  \/ entry.method.type # "string"
  \/ /\ ~Includes(ToLowerCase(entry.method.s), lowerFilter)
     /\ entry.uri.type # "string"

\* The value of the callback of entries.filter for a non-empty filter, when
\* it does not throw.
Matches(entry, lowerFilter) ==
  \/ Includes(ToLowerCase(entry.method.s), lowerFilter)
  \/ Includes(ToLowerCase(entry.uri.s), lowerFilter)
  \/ /\ entry.statusCode.type = "number"
     /\ Includes(NumberToString(entry.statusCode.n), lowerFilter)
  \/ Includes(ToLowerCase(Stringify(OrEmptyObject(entry.requestData))),
              lowerFilter)
  \/ Includes(ToLowerCase(Stringify(OrEmptyObject(entry.responseData))),
              lowerFilter)

\* The entries of the active tab, <<>> when there is none.
ActiveEntries ==
  LET k == CHOOSE k \in 0..Len(tabs) :
             \/ k >= 1 /\ tabs[k].id = activeTabId
                       /\ \A j \in 1..(k - 1) : tabs[j].id # activeTabId
             \/ k = 0 /\ \A j \in 1..Len(tabs) : tabs[j].id # activeTabId
  IN IF k = 0 THEN <<>> ELSE tabs[k].entries

\* Whether the computation of filteredEntries throws.
FilterThrows ==
  /\ filter # <<>>
  /\ \E i \in 1..Len(ActiveEntries) :
       Throws(ActiveEntries[i], ToLowerCase(filter))

\* Mutant of FilteredEntries: the entries that match come out last first.
FilteredEntriesReversed ==
  LET kept == IF filter = <<>> THEN ActiveEntries
              ELSE SelectSeq(ActiveEntries,
                             LAMBDA entry :
                               Matches(entry, ToLowerCase(filter)))
  IN [i \in 1..Len(kept) |-> kept[Len(kept) + 1 - i]]

\* filteredEntries, when its computation does not throw.
FilteredEntries ==
  IF filter = <<>> THEN ActiveEntries
  ELSE SelectSeq(ActiveEntries,
                 LAMBDA entry : Matches(entry, ToLowerCase(filter)))

\* The texts typed into the filter box.
Filters ==
  {<<>>, <<"P", "o", "s", "t">>, <<"4", "0", "4">>, <<"{", "}">>,
   <<"/", "a">>, <<"k">>}

\* onChange of the filter box.
SetFilter(f) ==
  /\ filter # f
  /\ filter' = f
  /\ UNCHANGED <<servers, tabs, activeTabId, msgs, calls, clock, posted,
                 refused, stale,
       selectedEntry>>

\* A request without a method, and a response without a uri and a body.
ReqNoMethod(id) ==
  RequestObj(id, Undefined, UriA, Obj(1), Obj(2), Undefined)
RespNoUri(id) == ResponseObj(id, Num(200), Undefined, Undefined, Undefined)

\* The events posted to the session whose list is filtered.
QueryEvents ==
  {LogData(4000, 0, DataObj(Num(1), ReqA(Num(1)), NoResponse)),
   LogData(4000, 550, DataObj(Num(1), NoRequest, RespA(Num(1)))),
   LogData(4000, 0, DataObj(Num(2), ReqB(Num(2)), NoResponse)),
   LogData(4000, 550, DataObj(Num(2), NoRequest, RespB(Num(2)))),
   LogData(4000, 0, DataObj(Num(3), ReqNoMethod(Num(3)), NoResponse)),
   LogData(4000, 550, DataObj(Num(3), NoRequest, RespNoUri(Num(3))))}

\* The middleware, for the session whose list is filtered.
QueryPost(logData) ==
  /\ logData.port \in servers
  /\ posted < MaxQueryPosts
  /\ Len(msgs) < MaxInFlight
  /\ msgs' = Append(msgs, logData)
  /\ posted' = posted + 1
  /\ UNCHANGED <<servers, tabs, activeTabId, calls, clock, view, stale,
       selectedEntry>>

\* One session is opened; events arrive and the user types filters.
QueryNext ==
  \/ Idle /\ StartClick(4000)
  \/ \E i \in 1..Len(calls) : MainStart(i, FALSE)
  \/ \E i \in 1..Len(calls) : MainListening(i)
  \/ \E i \in 1..Len(calls) : StartReply(i)
  \/ \E logData \in QueryEvents : QueryPost(logData)
  \/ Deliver
  \/ \E f \in Filters : SetFilter(f)

QuerySpec == Init /\ [][QueryNext]_vars

(* ---------------- the calls a listener receives ---------------- *)
\* The methods other than POST that callers use.
OtherMethods == {"GET", "PUT"}

\* The middleware for a call whose method is not POST: the call is answered
\* 404 and nothing is sent to the renderer.
NotFound(port, method) ==
  /\ port \in servers
  /\ method # "POST"
  /\ posted + refused < MaxPosts
  /\ refused' = refused + 1
  /\ UNCHANGED <<servers, tabs, activeTabId, msgs, calls, clock, posted,
                 filter, stale,
       selectedEntry>>

\* The paths callers post to.
Paths == {Str(<<"/">>), Str(<<"/", "a">>)}

\* The events of the POSTs: a JSON body and a body that is not JSON, to each
\* path of each port.
ListenerEvents ==
  {[LogData(port, 0, data) EXCEPT !.path = path] :
     port \in Ports, path \in Paths,
     data \in {DataObj(Num(1), ReqA(Num(1)), NoResponse), RawText}}

\* Listeners are started and stopped, one call at a time, and receive calls
\* of every method.
ListenerNext ==
  \/ \E logData \in ListenerEvents : Post(logData)
  \/ \E port \in Ports, method \in OtherMethods : NotFound(port, method)
  \/ \E i \in 1..Len(calls), inUse \in BOOLEAN : MainStart(i, inUse)
  \/ \E i \in 1..Len(calls) : MainListening(i)
  \/ \E i \in 1..Len(calls) : MainStop(i)
  \/ \E i \in 1..Len(calls) : MainClosed(i)
  \/ Deliver
  \/ \E port \in Ports : Idle /\ StartClick(port)
  \/ \E i \in 1..Len(calls) : StartReply(i)
  \/ \E port \in Ports : Idle /\ StopClick(port)
  \/ \E i \in 1..Len(calls) : StopReply(i)

ListenerSpec == Init /\ [][ListenerNext]_vars

(* ---------------- the entry under inspection ---------------- *)
\* handleEntryClick, on the i-th row of the rendered list.
EntryClick(i) ==
  /\ ~FilterThrows
  /\ i \in 1..Len(FilteredEntries)
  /\ selectedEntry' = <<FilteredEntries[i]>>
  /\ UNCHANGED <<servers, tabs, activeTabId, msgs, calls, clock, posted,
                 refused, filter, stale>>

\* The events posted while an entry is inspected: the request and the
\* response of one id, at either instant.
SelectEvents ==
  {e \in Events :
     /\ e.port = 4000
     /\ e.data \in {DataObj(Num(1), ReqA(Num(1)), NoResponse),
                     DataObj(Num(1), NoRequest, RespA(Num(1)))}}

\* One session is opened and closed, one call at a time; events arrive while
\* the user selects entries, clicks the tab and clears the list.
SelectNext ==
  \/ \E logData \in SelectEvents : Post(logData)
  \/ \E i \in 1..Len(calls) : MainStart(i, FALSE)
  \/ \E i \in 1..Len(calls) : MainListening(i)
  \/ \E i \in 1..Len(calls) : MainStop(i)
  \/ \E i \in 1..Len(calls) : MainClosed(i)
  \/ Deliver
  \/ Idle /\ StartClick(4000)
  \/ \E i \in 1..Len(calls) : StartReply(i)
  \/ Idle /\ StopClick(4000)
  \/ \E i \in 1..Len(calls) : StopReply(i)
  \/ \E k \in 1..Len(tabs) : TabClick(k)
  \/ ClearEntries
  \/ \E i \in 1..Len(ActiveEntries) : EntryClick(i)

SelectSpec == Init /\ [][SelectNext]_vars

(* ---------------- overlapping starts and stops ---------------- *)
\* The events posted while starts and stops overlap: one request per port.
ConcEvents ==
  {e \in Events : e.data = DataObj(Num(1), ReqA(Num(1)), NoResponse)
                    /\ e.timestamp = ToISOString(0)}

\* The user starts and stops without waiting for the outcome of the calls
\* already made; the main process and the renderer run as in Next.
ConcNext ==
  \/ \E logData \in ConcEvents : Post(logData)
  \/ \E i \in 1..Len(calls), inUse \in BOOLEAN : MainStart(i, inUse)
  \/ \E i \in 1..Len(calls) : MainListening(i)
  \/ \E i \in 1..Len(calls) : MainStop(i)
  \/ \E i \in 1..Len(calls) : MainClosed(i)
  \/ Deliver
  \/ \E port \in Ports : StartClick(port)
  \/ \E i \in 1..Len(calls) : StartReply(i)
  \/ \E port \in Ports : StopClick(port)
  \/ \E i \in 1..Len(calls) : StopReply(i)

ConcSpec == Init /\ [][ConcNext]_vars

(* ---------------- vocabulary of the properties ---------------- *)
\* A step in which the renderer handles the oldest event in flight.
Handling == msgs # <<>> /\ msgs' = Tail(msgs)

\* The event that step handles.
Ev == Head(msgs)

\* The sessions of a port.
SessionsOf(port) == {k \in 1..Len(tabs) : tabs[k].port = port}

\* The positions of an id in an entry list.
Positions(entries, id) == {i \in 1..Len(entries) : entries[i].id = id}

IdTruthy(v) == v \notin {Undefined, Null, Num(0), Str(<<>>)}
CarriesId(e) == e.data.type = "object" /\ IdTruthy(e.data.id)
UsableRequest(e) == e.data.type = "object" /\ e.data.request.type = "object"
UsableResponse(e) == e.data.type = "object" /\ e.data.response.type = "object"

\* An event handled as a request, and one handled as a response.
RequestEvent(e) == CarriesId(e) /\ UsableRequest(e)
ResponseEvent(e) == CarriesId(e) /\ UsableResponse(e) /\ ~UsableRequest(e)

\* The instant an ISO text denotes.
InstantOf(iso) == CHOOSE t \in Times : ToISOString(t) = iso

RequestSideFrom(entry, e) ==
  /\ entry.method = e.data.request.method
  /\ entry.uri = e.data.request.uri
  /\ entry.requestTimestamp = e.timestamp
  /\ entry.requestHeaders = e.data.request.headers
  /\ entry.requestData = e.data.request.data
  /\ entry.requestQueryParameters = e.data.request.queryParameters

ResponseSideUnset(entry) ==
  /\ entry.responseTimestamp = Undefined
  /\ entry.statusCode = Undefined
  /\ entry.responseMessage = Undefined
  /\ entry.responseData = Undefined
  /\ entry.duration = Undefined

ResponseSideSame(old, new) ==
  /\ new.responseTimestamp = old.responseTimestamp
  /\ new.statusCode = old.statusCode
  /\ new.responseMessage = old.responseMessage
  /\ new.responseData = old.responseData
  /\ new.duration = old.duration

(* ---------------- C1 ---------------- *)
\* C1: a request event with a truthy id that matches no entry of the open
\* session of its port puts a new entry at the head of that session's list,
\* in front of the previous list; the entry has its request-side fields from
\* the event and every response-side field, duration included, unset.
C1_RequestCreatesHeadEntry ==
  [][ Handling =>
        \A k \in SessionsOf(Ev.port) :
          (RequestEvent(Ev) /\ Positions(tabs[k].entries, Ev.data.id) = {})
            => /\ Len(tabs') = Len(tabs)
               /\ Len(tabs'[k].entries) = Len(tabs[k].entries) + 1
               /\ Tail(tabs'[k].entries) = tabs[k].entries
               /\ Head(tabs'[k].entries).id = Ev.data.id
               /\ RequestSideFrom(Head(tabs'[k].entries), Ev)
               /\ ResponseSideUnset(Head(tabs'[k].entries)) ]_vars

\* A pending request stands in front of an older entry.
C1_Witness ==
  \E k \in 1..Len(tabs) :
    /\ Len(tabs[k].entries) = 2
    /\ tabs[k].entries[1].method = GET
    /\ tabs[k].entries[1].requestData = Obj(2)
    /\ ResponseSideUnset(tabs[k].entries[1])

(* ---------------- C2 ---------------- *)
\* C2: a response event whose id matches an entry of the session of its port
\* sets that entry's responseTimestamp, statusCode, responseMessage and
\* responseData from the event, and its duration to the milliseconds from the
\* requestTimestamp the entry held before the event to the event's timestamp.
C2_ResponseMergedWithDuration ==
  [][ Handling =>
        \A k \in SessionsOf(Ev.port) :
          \A i \in Positions(tabs[k].entries, Ev.data.id) :
            ResponseEvent(Ev)
              => /\ Len(tabs'[k].entries) = Len(tabs[k].entries)
                 /\ tabs'[k].entries[i].responseTimestamp = Ev.timestamp
                 /\ tabs'[k].entries[i].statusCode = Ev.data.response.status
                 /\ tabs'[k].entries[i].responseMessage
                      = Ev.data.response.message
                 /\ tabs'[k].entries[i].responseData = Ev.data.response.data
                 /\ tabs'[k].entries[i].duration
                      = Num(InstantOf(Ev.timestamp)
                              - InstantOf(tabs[k].entries[i].requestTimestamp))
    ]_vars

\* A request at 0 ms has received its response at 550 ms.
C2_Witness ==
  \E k \in 1..Len(tabs) : \E i \in 1..Len(tabs[k].entries) :
    /\ tabs[k].entries[i].method = GET
    /\ tabs[k].entries[i].requestTimestamp = ToISOString(0)
    /\ tabs[k].entries[i].responseTimestamp = ToISOString(550)
    /\ tabs[k].entries[i].statusCode = Num(200)
    /\ tabs[k].entries[i].duration = Num(550)

(* ---------------- C3 ---------------- *)
\* C3: a response event with a truthy id that matches no entry of the session
\* of its port puts a new entry at the head of that session's list: method
\* 'UNKNOWN', both timestamps the event's, duration 0, and statusCode,
\* responseMessage and responseData from the event.
C3_OrphanedResponseCreatesEntry ==
  [][ Handling =>
        \A k \in SessionsOf(Ev.port) :
          (ResponseEvent(Ev) /\ Positions(tabs[k].entries, Ev.data.id) = {})
            => /\ Len(tabs'[k].entries) = Len(tabs[k].entries) + 1
               /\ Tail(tabs'[k].entries) = tabs[k].entries
               /\ Head(tabs'[k].entries).id = Ev.data.id
               /\ Head(tabs'[k].entries).method = UNKNOWN
               /\ Head(tabs'[k].entries).requestTimestamp = Ev.timestamp
               /\ Head(tabs'[k].entries).responseTimestamp = Ev.timestamp
               /\ Head(tabs'[k].entries).duration = Num(0)
               /\ Head(tabs'[k].entries).statusCode = Ev.data.response.status
               /\ Head(tabs'[k].entries).responseMessage
                    = Ev.data.response.message
               /\ Head(tabs'[k].entries).responseData = Ev.data.response.data
    ]_vars

\* An orphaned response stands in front of an older entry.
C3_Witness ==
  \E k \in 1..Len(tabs) :
    /\ Len(tabs[k].entries) = 2
    /\ tabs[k].entries[1].method = UNKNOWN
    /\ tabs[k].entries[1].duration = Num(0)
    /\ tabs[k].entries[1].requestHeaders = Undefined

(* ---------------- C4 ---------------- *)
\* C4: a request event whose id matches an entry of the session of its port
\* overwrites that entry's request-side fields with the event's values and
\* nothing else: the entry's id, port and response-side fields, duration
\* included, every other entry and the length of the list are unchanged.
C4_RequestOverwritesRequestSide ==
  [][ Handling =>
        \A k \in SessionsOf(Ev.port) :
          \A i \in Positions(tabs[k].entries, Ev.data.id) :
            RequestEvent(Ev)
              => /\ Len(tabs') = Len(tabs)
                 /\ Len(tabs'[k].entries) = Len(tabs[k].entries)
                 /\ \A j \in 1..Len(tabs[k].entries) :
                      j # i => tabs'[k].entries[j] = tabs[k].entries[j]
                 /\ RequestSideFrom(tabs'[k].entries[i], Ev)
                 /\ tabs'[k].entries[i].id = tabs[k].entries[i].id
                 /\ tabs'[k].entries[i].port = tabs[k].entries[i].port
                 /\ ResponseSideSame(tabs[k].entries[i], tabs'[k].entries[i])
    ]_vars

\* The request of an orphaned response has arrived: the entry has the
\* request's method and an earlier request time, and still the response's
\* status and the duration 0 of an orphan.
C4_Witness ==
  \E k \in 1..Len(tabs) : \E i \in 1..Len(tabs[k].entries) :
    /\ tabs[k].entries[i].method = GET
    /\ tabs[k].entries[i].requestTimestamp = ToISOString(0)
    /\ tabs[k].entries[i].responseTimestamp = ToISOString(550)
    /\ tabs[k].entries[i].statusCode = Num(200)
    /\ tabs[k].entries[i].duration = Num(0)

(* ---------------- C5 ---------------- *)
\* C5: in every reachable state no session's entry list holds two entries
\* with the same id.
C5_IdsUniquePerSession ==
  \A k \in 1..Len(tabs) :
    \A i, j \in 1..Len(tabs[k].entries) :
      i # j => tabs[k].entries[i].id # tabs[k].entries[j].id

\* Two events with the same id have been handled by a session, which holds
\* one entry with both halves.
C5_Witness ==
  \E k \in 1..Len(tabs) :
    /\ posted = 2 /\ msgs = <<>>
    /\ Len(tabs[k].entries) = 1
    /\ tabs[k].entries[1].method = POST
    /\ tabs[k].entries[1].statusCode = Num(404)

(* ---------------- C6 ---------------- *)
\* C6: handling an event whose port has no open session changes nothing: the
\* sessions, their entry lists and the active session are as before, and no
\* session is created for the port.
C6_EventWithoutSessionIsNoOp ==
  [][ (Handling /\ SessionsOf(Ev.port) = {})
        => /\ tabs' = tabs
           /\ activeTabId' = activeTabId
           /\ servers' = servers ]_vars

\* A request is in flight for a port whose listener has been stopped and
\* whose session has been closed, next to a session that has an entry.
C6_Witness ==
  /\ msgs # <<>> /\ RequestEvent(Ev)
  /\ SessionsOf(Ev.port) = {} /\ Ev.port \notin servers
  /\ \E k \in 1..Len(tabs) : tabs[k].entries # <<>>

(* ---------------- C7 ---------------- *)
\* C7: handling an event of port P leaves every session whose port is not P
\* as it was: entries, endpoint, identity and position.
C7_OtherSessionsUntouched ==
  [][ Handling =>
        /\ Len(tabs') = Len(tabs)
        /\ \A k \in 1..Len(tabs) :
             tabs[k].port # Ev.port => tabs'[k] = tabs[k] ]_vars

\* A request is in flight for a port that has a session, next to a session of
\* another port that has an entry.
C7_Witness ==
  /\ msgs # <<>> /\ RequestEvent(Ev)
  /\ SessionsOf(Ev.port) # {}
  /\ \E k \in 1..Len(tabs) : tabs[k].port # Ev.port /\ tabs[k].entries # <<>>

(* ---------------- C8 ---------------- *)
\* An event the handler is to discard.
Discardable(e) ==
  \/ e.data.type # "object"
  \/ ~IdTruthy(e.data.id)
  \/ ~UsableRequest(e) /\ ~UsableResponse(e)

\* C8: handling an event of an open session's port changes nothing when its
\* data is absent or is no object, or its id is absent or falsy (0 and the
\* empty string included), or it has neither a usable request nor a usable
\* response.
C8_MalformedEventDiscarded ==
  [][ (Handling /\ SessionsOf(Ev.port) # {} /\ Discardable(Ev))
        => /\ tabs' = tabs
           /\ activeTabId' = activeTabId
           /\ servers' = servers
           /\ calls' = calls ]_vars

\* An event with the id 0 is in flight for a session that has an entry.
C8_Witness ==
  /\ msgs # <<>> /\ Ev.data.id = Num(0)
  /\ \E k \in SessionsOf(Ev.port) : tabs[k].entries # <<>>

(* ---------------- C9 ---------------- *)
\* The fields of an entry that can be unset (its port is a number throughout).
EntryFields ==
  {"id", "method", "uri", "requestTimestamp", "requestHeaders",
   "requestData", "requestQueryParameters", "responseTimestamp",
   "statusCode", "responseMessage", "responseData", "duration"}

\* C9: a field of an entry that holds a value holds a value after every step
\* that keeps the entry.
C9_FieldsNeverUnset ==
  [][ \A k \in 1..Len(tabs) : \A k2 \in 1..Len(tabs') :
        tabs'[k2].id = tabs[k].id =>
          \A i \in 1..Len(tabs[k].entries) :
            \A i2 \in Positions(tabs'[k2].entries, tabs[k].entries[i].id) :
              \A f \in EntryFields :
                tabs[k].entries[i][f] # Undefined
                  => tabs'[k2].entries[i2][f] # Undefined ]_vars

(* ---------------- C10 ---------------- *)
\* C10: after an event whose request sub-object carries a truthy id is
\* handled for an open session, the session has an entry with that id; the
\* same for a response sub-object.
C10_CorrelatedUnderNestedId ==
  [][ Handling =>
        \A k \in SessionsOf(Ev.port) :
          /\ (UsableRequest(Ev) /\ IdTruthy(Ev.data.request.id))
               => Positions(tabs'[k].entries, Ev.data.request.id) # {}
          /\ (UsableResponse(Ev) /\ IdTruthy(Ev.data.response.id))
               => Positions(tabs'[k].entries, Ev.data.response.id) # {}
    ]_vars

(* ---------------- vocabulary of the lifecycle properties ---------------- *)
\* A step in which the main process takes up the i-th call.
TakenUp(i) ==
  /\ calls[i].stage = "invoked"
  /\ Len(calls') = Len(calls)
  /\ calls'[i].stage # "invoked"

\* A step in which the renderer receives the result of the i-th call.
Replied(i) ==
  /\ calls[i].stage = "returned"
  /\ calls' = Settled(RemoveAt(calls, i))

Failed(call) == call.stage = "returned" /\ ~call.ok

\* What a session is apart from its place in the tab strip.
Session(t) ==
  [id |-> t.id, port |-> t.port, endpoint |-> t.endpoint,
   entries |-> t.entries]

SessionsIn(prevTabs) == [k \in 1..Len(prevTabs) |-> Session(prevTabs[k])]

OfOtherPort(prevTabs, port) ==
  SelectSeq(prevTabs, LAMBDA t : t.port # port)

NothingChanges ==
  /\ servers' = servers /\ tabs' = tabs /\ activeTabId' = activeTabId
  /\ msgs' = msgs

(* ---------------- C11 ---------------- *)
\* C11: no start is issued for a port that has a session, and a start on a
\* port that has a listener is answered with a failure; a failed start
\* changes no session and no listener. A start that succeeds adds exactly one
\* session, of that port, with an empty entry list and the endpoint of the
\* listener, and leaves the sessions there were as they are.
C11_StartFailsOrOpensOneSession ==
  [][ /\ (Len(calls') = Len(calls) + 1
            /\ calls'[Len(calls')].kind = "start")
          => SessionsOf(calls'[Len(calls')].port) = {} /\ NothingChanges
      /\ \A i \in 1..Len(calls) :
           calls[i].kind = "start" =>
             /\ (TakenUp(i) /\ calls[i].port \in servers)
                  => Failed(calls'[i]) /\ NothingChanges
             /\ (Replied(i) /\ ~calls[i].ok) => NothingChanges
             /\ (Replied(i) /\ calls[i].ok) =>
                  /\ calls[i].port \in servers /\ servers' = servers
                  /\ Len(tabs') = Len(tabs) + 1
                  /\ SessionsIn(SubSeq(tabs', 1, Len(tabs)))
                       = SessionsIn(tabs)
                  /\ tabs'[Len(tabs')].port = calls[i].port
                  /\ tabs'[Len(tabs')].entries = <<>>
                  /\ tabs'[Len(tabs')].endpoint = Endpoint(calls[i].port)
                  /\ \A k \in 1..Len(tabs) :
                       tabs[k].id # tabs'[Len(tabs')].id ]_vars

\* A start was refused for a port whose session has just been opened, empty.
C11_Witness ==
  \E i \in 1..Len(calls), k \in 1..Len(tabs) :
    /\ calls[i].kind = "start" /\ Failed(calls[i])
    /\ tabs[k].port = calls[i].port
    /\ tabs[k].entries = <<>>
    /\ tabs[k].endpoint = Endpoint(calls[i].port)
    /\ calls[i].port \in servers
    /\ msgs # <<>>

(* ---------------- C12 ---------------- *)
\* C12: a stop on a port without a listener is answered with a failure, and
\* a failed stop changes no session and no listener. A stop on a port with a
\* listener closes it: the close removes the port from the registry and
\* makes the stop succeed, and the result of a stop that succeeded removes
\* the session of the port with its entries and leaves every other session
\* as it is.
C12_StopFailsOrClosesSession ==
  [][ \A i \in 1..Len(calls) :
        calls[i].kind = "stop" =>
          /\ (TakenUp(i) /\ calls[i].port \notin servers)
               => Failed(calls'[i]) /\ NothingChanges
          /\ (TakenUp(i) /\ calls[i].port \in servers)
               => calls'[i].stage = "closing" /\ NothingChanges
          /\ (calls[i].stage = "closing" /\ Len(calls') = Len(calls)
                 /\ calls'[i].stage # "closing")
               => /\ calls'[i].stage = "returned" /\ calls'[i].ok
                  /\ servers' = servers \ {calls[i].port}
                  /\ tabs' = tabs
          /\ (Replied(i) /\ ~calls[i].ok) => NothingChanges
          /\ (Replied(i) /\ calls[i].ok) =>
               /\ servers' = servers
               /\ SessionsIn(tabs')
                    = SessionsIn(OfOtherPort(tabs, calls[i].port)) ]_vars

\* A session that holds an entry is left after the session of another port,
\* which held an entry too, was closed, and a second stop has failed.
C12_Witness ==
  /\ Len(tabs) = 1
  /\ tabs[1].entries # <<>>
  /\ servers = {tabs[1].port}
  /\ posted = 2
  /\ \E i \in 1..Len(calls) :
       /\ calls[i].kind = "stop" /\ Failed(calls[i])
       /\ calls[i].port # tabs[1].port

(* ---------------- C13 ---------------- *)
\* C13: whatever the interleaving of the starts, a port never has more than
\* one session, and of the starts of one port that are bound or have
\* succeeded and the sessions of that port there is at most one: of two
\* starts of a port issued before either returns, at most one succeeds.
C13_OneSessionPerPort ==
  \A port \in Ports :
    Cardinality(SessionsOf(port))
      + Cardinality({i \in 1..Len(calls) :
                      /\ calls[i].kind = "start" /\ calls[i].port = port
                      /\ \/ calls[i].stage = "binding"
                         \/ calls[i].stage = "returned" /\ calls[i].ok})
      <= 1

\* Two starts of one port were issued before either returned: the first has
\* succeeded and the second has failed.
C13_Witness ==
  /\ Len(calls) = 2
  /\ calls[1].kind = "start" /\ calls[2].kind = "start"
  /\ calls[1].port = calls[2].port
  /\ calls[1].stage = "returned" /\ calls[1].ok
  /\ Failed(calls[2])
  /\ calls[1].port \in servers

(* ---------------- C14 ---------------- *)
\* C14: a step that empties an entry list while no event is handled and no
\* call returns empties the list of the active session and nothing else: the
\* session stays open with its id, port, endpoint and place, and every other
\* session, the active tab id and the registry are as before.
C14_ClearEmptiesActiveSessionOnly ==
  [][ ( /\ msgs' = msgs /\ calls' = calls
        /\ Len(tabs') = Len(tabs)
        /\ \E k \in 1..Len(tabs) : tabs'[k].entries # tabs[k].entries )
      => /\ \E k \in 1..Len(tabs) :
              /\ tabs[k].id = activeTabId
              /\ tabs'[k] = [tabs[k] EXCEPT !.entries = <<>>]
              /\ \A j \in 1..Len(tabs) : j # k => tabs'[j] = tabs[j]
         /\ activeTabId' = activeTabId
         /\ servers' = servers ]_vars

\* The active session holds an entry and so does another session: a clear
\* has one list to empty and one to leave.
C14_Witness ==
  /\ Len(tabs) = 2
  /\ \E k \in 1..2 :
       /\ tabs[k].id = activeTabId
       /\ tabs[k].entries # <<>>
       /\ tabs[3 - k].entries # <<>>
  /\ msgs = <<>> /\ calls = <<>>

(* ---------------- C15 ---------------- *)
\* C15: an event that a listener sent before it was closed adds no entry to,
\* and changes no entry of, a session of its port that was opened after the
\* close, whenever it is delivered.
C15_NoEntryFromBeforeClose ==
  [][ (Handling /\ Head(stale))
        => \A k \in SessionsOf(Ev.port) :
             (\A i \in 1..Len(calls) :
                ~(calls[i].kind = "stop" /\ calls[i].port = Ev.port))
               => tabs'[k].entries = tabs[k].entries ]_vars

(* ---------------- C16 ---------------- *)
\* Whether the sequence a is b with some of its elements left out.
RECURSIVE IsSubsequence(_, _)
IsSubsequence(a, b) ==
  IF a = <<>> THEN TRUE
  ELSE IF b = <<>> THEN FALSE
  ELSE IF Head(a) = Head(b) THEN IsSubsequence(Tail(a), Tail(b))
  ELSE IsSubsequence(a, Tail(b))

\* C16: whenever the filtered list can be computed, it is the stored list of
\* the active session with some entries left out, in the stored order, and
\* with an empty filter text it is the stored list itself; a change of the
\* filter text, which makes the list be computed anew, changes no session,
\* no entry, no active tab and no listener.
C16_QueryIsOrderedReadOnlyProjection ==
  [][ /\ ~FilterThrows => IsSubsequence(FilteredEntries, ActiveEntries)
      /\ filter = <<>> => FilteredEntries = ActiveEntries
      /\ filter' # filter =>
           /\ tabs' = tabs /\ activeTabId' = activeTabId
           /\ servers' = servers /\ msgs' = msgs /\ calls' = calls ]_vars

\* Of three stored entries the filter "k" keeps the first and the last.
C16_Witness ==
  /\ filter = <<"k">>
  /\ ~FilterThrows
  /\ Len(ActiveEntries) = 3
  /\ FilteredEntries = <<ActiveEntries[1], ActiveEntries[3]>>

(* ---------------- C17 ---------------- *)
\* The texts of the fields of an entry that the filter is to be looked for
\* in: the fields that are absent have no text.
FieldTexts(entry) ==
  (IF entry.method.type = "string" THEN {entry.method.s} ELSE {})
    \cup (IF entry.uri.type = "string" THEN {entry.uri.s} ELSE {})
    \cup (IF entry.statusCode.type = "number"
            THEN {NumberToString(entry.statusCode.n)} ELSE {})
    \cup (IF entry.requestData.type = "object"
            THEN {Stringify(entry.requestData)} ELSE {})
    \cup (IF entry.responseData.type = "object"
            THEN {Stringify(entry.responseData)} ELSE {})

\* C17: with a non-empty filter text, an entry of the active session is in
\* the filtered list if and only if the text, letter case apart, is part of
\* its method, its uri, its status code written as a number, the JSON text
\* of its requestData or the JSON text of its responseData.
C17_ResultIsExactlyTheMatches ==
  (filter # <<>> /\ ~FilterThrows) =>
    \A i \in 1..Len(ActiveEntries) :
      (\E j \in 1..Len(FilteredEntries) :
         FilteredEntries[j] = ActiveEntries[i])
        <=> \E text \in FieldTexts(ActiveEntries[i]) :
              Includes(ToLowerCase(text), ToLowerCase(filter))

(* ---------------- C18 ---------------- *)
\* A step in which a listener answers a call: a POST, or a call of another
\* method.
AnswersPost == posted' = posted + 1
AnswersOther == refused' = refused + 1

\* C18 as stated: every call a listener answers, whatever its method, sends
\* exactly one event to the renderer.
C18_EveryCallEmitsOneEvent ==
  [][ (AnswersPost \/ AnswersOther) => Len(msgs') = Len(msgs) + 1 ]_vars

\* C18, amended: every POST a listener answers, whatever its path, sends
\* exactly one event to the renderer, behind the events in flight: the event
\* has the port of the listener, which is registered, the method POST, a
\* timestamp, the path, the headers and the body of the call; a call of any
\* other method sends no event and changes no session.
C18_EveryPostEmitsOneEvent ==
  [][ /\ AnswersPost =>
           /\ Len(msgs') = Len(msgs) + 1
           /\ SubSeq(msgs', 1, Len(msgs)) = msgs
           /\ LET e == msgs'[Len(msgs')]
              IN /\ DOMAIN e = {"port", "timestamp", "method", "path",
                                "headers", "data"}
                 /\ e.port \in servers
                 /\ e.method = POST
                 /\ e.path \in Paths
                 /\ e.timestamp \in {ToISOString(t) : t \in Times}
           /\ tabs' = tabs /\ servers' = servers
      /\ AnswersOther => msgs' = msgs /\ tabs' = tabs /\ servers' = servers
    ]_vars

\* A POST to the path /a has been answered after a call of another method:
\* its event is the only one in flight.
C18_Witness ==
  /\ refused = 1 /\ posted = 1
  /\ Len(msgs) = 1
  /\ msgs[1].path = Str(<<"/", "a">>)
  /\ msgs[1].data = RawText
  /\ msgs[1].port \in servers

(* ---------------- C19 ---------------- *)
\* C19: in every state the events produce, the filtered list of the active
\* session can be computed, whatever the filter text: the computation does
\* not throw, whichever fields the entries lack.
C19_QueryNeverRaises == ~FilterThrows

(* ---------------- C20 ---------------- *)
\* The ids of an entry list, in the order of the list.
Ids(entries) == [i \in 1..Len(entries) |-> entries[i].id]

\* C20: the ids of a session's list change in two ways only: the list is
\* emptied, or the handling of an event puts the id of the event, which the
\* list did not hold, in front of the ids there were. A merge into an entry
\* changes neither the place, nor the order, nor the number of the ids.
C20_IdsInReverseOrderOfArrival ==
  [][ \A k \in 1..Len(tabs), j \in 1..Len(tabs') :
        tabs'[j].id = tabs[k].id =>
          \/ Ids(tabs'[j].entries) = Ids(tabs[k].entries)
          \/ tabs'[j].entries = <<>>
          \/ /\ Handling
             /\ tabs[k].port = Ev.port
             /\ Positions(tabs[k].entries, Ev.data.id) = {}
             /\ Ids(tabs'[j].entries)
                  = <<Ev.data.id>> \o Ids(tabs[k].entries) ]_vars

\* The id of a response that arrived second stands in front of the id of
\* the request that arrived first.
C20_Witness ==
  \E k \in 1..Len(tabs) :
    /\ Ids(tabs[k].entries) = <<Num(1), Str(<<"1">>)>>
    /\ tabs[k].entries[1].statusCode = Num(200)
    /\ tabs[k].entries[2].statusCode = Undefined

(* ---------------- C21 ---------------- *)
\* No entry of the list has a negative duration.
NoNegativeDuration(entries) ==
  \A i \in 1..Len(entries) :
    entries[i].duration.type = "number" => entries[i].duration.n >= 0

\* The event is not earlier than any timestamp the list holds.
NotEarlierThan(e, entries) ==
  \A i \in 1..Len(entries) :
    /\ InstantOf(e.timestamp) >= InstantOf(entries[i].requestTimestamp)
    /\ entries[i].responseTimestamp.type = "string"
         => InstantOf(e.timestamp) >= InstantOf(entries[i].responseTimestamp)

\* C21: an event that is not earlier than the timestamps its session holds
\* leaves the session without a negative duration if it had none, and no
\* step other than the handling of an event brings in a negative duration:
\* events handled in the order of their timestamps never give one. Whatever
\* the order, a response whose id matches an entry is not rejected and its
\* duration is stored as computed, negative when the response is earlier
\* than the request.
C21_DurationSignFollowsOrder ==
  [][ /\ Handling =>
           \A k \in SessionsOf(Ev.port) :
             /\ (NotEarlierThan(Ev, tabs[k].entries)
                   /\ NoNegativeDuration(tabs[k].entries))
                  => NoNegativeDuration(tabs'[k].entries)
             /\ ResponseEvent(Ev) =>
                  \A i \in Positions(tabs[k].entries, Ev.data.id) :
                    /\ Len(tabs'[k].entries) = Len(tabs[k].entries)
                    /\ tabs'[k].entries[i].responseTimestamp = Ev.timestamp
                    /\ tabs'[k].entries[i].duration.n
                         = InstantOf(Ev.timestamp)
                             - InstantOf(tabs[k].entries[i].requestTimestamp)
      /\ ~Handling =>
           \A j \in 1..Len(tabs') :
             ~NoNegativeDuration(tabs'[j].entries)
               => \E k \in 1..Len(tabs) :
                    /\ tabs[k].id = tabs'[j].id
                    /\ ~NoNegativeDuration(tabs[k].entries) ]_vars

\* A response of 0 ms was handled after its request of 550 ms: the entry
\* holds the duration -550.
C21_Witness ==
  \E k \in 1..Len(tabs) : \E i \in 1..Len(tabs[k].entries) :
    /\ tabs[k].entries[i].requestTimestamp = ToISOString(550)
    /\ tabs[k].entries[i].responseTimestamp = ToISOString(0)
    /\ tabs[k].entries[i].duration = Num(0 - 550)

(* ---------------- C22 ---------------- *)
\* C22: after every step, every entry of a session's list has the port of
\* the session, and it comes from the list the same session had before the
\* step or from the event handled in the step, which is of the session's
\* port: no entry comes from the list of another session.
C22_EntriesBelongToTheirSession ==
  [][ \A j \in 1..Len(tabs') : \A i \in 1..Len(tabs'[j].entries) :
        LET entry == tabs'[j].entries[i]
        IN /\ entry.port = tabs'[j].port
           /\ \/ \E k \in 1..Len(tabs) :
                    /\ tabs[k].id = tabs'[j].id
                    /\ Positions(tabs[k].entries, entry.id) # {}
              \/ /\ Handling
                 /\ Ev.port = tabs'[j].port
                 /\ Ev.data.id = entry.id ]_vars

\* Two sessions hold one entry each, the first from a request and the second
\* from a response, each with the port of its session.
C22_Witness ==
  /\ Len(tabs) = 2
  /\ Len(tabs[1].entries) = 1 /\ Len(tabs[2].entries) = 1
  /\ tabs[1].entries[1].port = tabs[1].port
  /\ tabs[2].entries[1].port = tabs[2].port
  /\ tabs[1].port # tabs[2].port
  /\ tabs[1].entries[1].statusCode = Undefined
  /\ tabs[2].entries[1].statusCode = Num(200)

(* ---------------- C23 ---------------- *)
\* An event with a truthy id, a usable request and a usable response.
BothEvent(e) == CarriesId(e) /\ UsableRequest(e) /\ UsableResponse(e)

\* C23: an event that carries a usable request and a usable response is
\* handled as a request: an entry with its id gets its request-side fields
\* from the event and keeps its response-side fields and its duration, in a
\* list of the same length; without such an entry a new one is put at the
\* head with the request-side fields and no response-side field.
C23_BothFieldsHandledAsRequest ==
  [][ (Handling /\ BothEvent(Ev)) =>
        \A k \in SessionsOf(Ev.port) :
          /\ \A i \in Positions(tabs[k].entries, Ev.data.id) :
               /\ Len(tabs'[k].entries) = Len(tabs[k].entries)
               /\ RequestSideFrom(tabs'[k].entries[i], Ev)
               /\ ResponseSideSame(tabs[k].entries[i], tabs'[k].entries[i])
          /\ Positions(tabs[k].entries, Ev.data.id) = {} =>
               /\ Tail(tabs'[k].entries) = tabs[k].entries
               /\ RequestSideFrom(Head(tabs'[k].entries), Ev)
               /\ ResponseSideUnset(Head(tabs'[k].entries)) ]_vars

\* An event with a request and a response is about to be handled by a
\* session whose entry of that id holds the status 200 of an earlier
\* response.
C23_Witness ==
  /\ msgs # <<>>
  /\ BothEvent(Head(msgs))
  /\ \E k \in SessionsOf(Head(msgs).port) :
       \E i \in Positions(tabs[k].entries, Head(msgs).data.id) :
         /\ tabs[k].entries[i].statusCode = Num(200)
         /\ Head(msgs).data.response.status = Num(404)

(* ---------------- C24 ---------------- *)
\* The stops of a port that the step makes succeed.
StopsSucceeding(port) ==
  {i \in 1..Len(calls) :
     /\ calls[i].kind = "stop" /\ calls[i].port = port
     /\ calls[i].stage = "closing"
     /\ Len(calls') = Len(calls)
     /\ calls'[i].stage = "returned" /\ calls'[i].ok}

\* C24: the close of a listener makes at most one stop succeed.
C24_OneStopSucceedsPerListener ==
  [][ \A port \in servers \ servers' :
        Cardinality(StopsSucceeding(port)) <= 1 ]_vars

(* ---------------- C25 ---------------- *)
\* The ports that have a session.
SessionPorts == {tabs[k].port : k \in 1..Len(tabs)}

\* C25: when no start and no stop is awaiting its result, the ports that
\* have a session are the ports of the registry.
C25_SessionsMatchRegistryWhenIdle == Idle => SessionPorts = servers

\* No call is in flight, and of the two sessions that were opened the one
\* that was not stopped is left, with its listener.
C25_Witness ==
  /\ Idle
  /\ clock = 2
  /\ Len(tabs) = 1
  /\ servers = {tabs[1].port}

(* ---------------- C26 ---------------- *)
\* C26: when no start and no stop is awaiting its result and there is a
\* session, the active tab id is the id of a session, and that session is
\* the one, and the only one, flagged active.
C26_ActiveIdNamesTheActiveSession ==
  (Idle /\ tabs # <<>>) =>
    \E k \in 1..Len(tabs) :
      /\ tabs[k].id = activeTabId
      /\ \A j \in 1..Len(tabs) : tabs[j].active <=> (j = k)

(* ---------------- C27 ---------------- *)
\* C27: whenever an entry is selected, the selected record is an entry of
\* the list of the active session, as it is stored now.
C27_SelectionShowsStoredEntry ==
  selectedEntry # <<>> =>
    \E i \in 1..Len(ActiveEntries) : ActiveEntries[i] = selectedEntry[1]

====
